---- MODULE Spec2Model ----
(***************************************************************************)
(* Model of the satellite deployment schedule of LDAR-Sim                  *)
(* (methods/deployment/orbit_crew.py, class Schedule).                      *)
(*                                                                         *)
(* Coordinates are integers in units of 1/64 degree, cloud fractions are   *)
(* integers in units of 1/1000, text lines are sequences of characters.    *)
(***************************************************************************)
EXTENDS Integers, Sequences, FiniteSets, TLC

VARIABLES
    pc,             \* where the caller is: "new" before Schedule(...), "failed" if
                    \* __init__ raised, else the day's state: "DAY_START", "PLANNED",
                    \* "DAY_END", or "ABORTED" once start_day has raised
    config,         \* config['TLE_label'], config['TLE_file']
    parameters,     \* parameters['consider_weather']
    t,              \* state['t']: current_date, current_timestep
    predictor,      \* self.predictor (the element pair it was built from)
    sat_date,       \* self.sat_date
    orbit_path,     \* self.orbit_path
    worked_today,   \* self.worked_today
    rng,            \* number of calls made so far on the shared numpy random source
    ret             \* what the most recent operation handed back to its caller

vars == <<pc, config, parameters, t, predictor, sat_date, orbit_path,
          worked_today, rng, ret>>

\* an attribute of the object: whether it exists yet, and its value
Attr(v) == [exists |-> TRUE, value |-> v]
NoSeqAttr == [exists |-> FALSE, value |-> <<>>]
NoFlagAttr == [exists |-> FALSE, value |-> FALSE]

(***************************************************************************)
(* Bounds of the model.                                                     *)
(***************************************************************************)
MaxDay == 2         \* simulated days are 0..MaxDay
MaxPool == 2        \* longest site pool handed to start_day
MaxDraws == 8       \* most calls on the random source in one run

(***************************************************************************)
(* Schedule.__init__ constants.                                            *)
(***************************************************************************)
work_hours == 24
start_hour == 0
end_hour == 23
DayStartHour == 1   \* replace(hour=int(1)) in start_day
ArrLen == 100       \* np.zeros(100)
Percent == 100      \* cloud fraction * 100

(***************************************************************************)
(* np.float16: 11 significant bits, round to nearest, ties to even. In     *)
(* units of 1/64 degree, magnitudes below 32 degrees (2048 units) are       *)
(* exact; the spacing then doubles with every power of two.                 *)
(***************************************************************************)
Abs(x) == IF x < 0 THEN -x ELSE x

Spacing(a) ==
    IF a < 2048 THEN 1
    ELSE IF a < 4096 THEN 2
    ELSE IF a < 8192 THEN 4
    ELSE IF a < 16384 THEN 8
    ELSE 16

RoundHalfEven(a, s) ==
    LET q == a \div s
        r == a % s
    IN  IF 2 * r < s THEN q * s
        ELSE IF 2 * r > s THEN (q + 1) * s
        ELSE IF q % 2 = 0 THEN q * s ELSE (q + 1) * s

float16(x) ==
    LET a == Abs(x)
        m == RoundHalfEven(a, Spacing(a))
    IN  IF x < 0 THEN -m ELSE m

(***************************************************************************)
(* Sites handed in by the company. SiteA lies just outside Box1 at full    *)
(* precision and inside it once reduced to float16; SiteB is outside every *)
(* polygon; SiteC is inside both Box1 and Box2.                            *)
(***************************************************************************)
SiteA == [id |-> "A", lat |-> 3521, lon |-> -7402]
SiteB == [id |-> "B", lat |-> 1280, lon |-> -5120]
SiteC == [id |-> "C", lat |-> 3550, lon |-> -7320]
Sites == {SiteA, SiteB, SiteC}

RECURSIVE SeqsUpTo(_, _)
SeqsUpTo(S, n) ==
    IF n = 0 THEN {<<>>}
    ELSE LET shorter == SeqsUpTo(S, n - 1)
         IN  shorter \cup {Append(p, s) : p \in shorter, s \in S}

SitePools == SeqsUpTo(Sites, MaxPool)

(***************************************************************************)
(* Coverage polygons: axis-parallel boxes. Polygon.contains is true of     *)
(* interior points only.                                                    *)
(***************************************************************************)
Box1 == [lon_min |-> -7401, lon_max |-> -7300, lat_min |-> 3500, lat_max |-> 3600]
Box2 == [lon_min |-> -7330, lon_max |-> -7200, lat_min |-> 3540, lat_max |-> 3700]

Point(x, y) == [x |-> x, y |-> y]

contains(dp, PT) ==
    /\ dp.lon_min < PT.x /\ PT.x < dp.lon_max
    /\ dp.lat_min < PT.y /\ PT.y < dp.lat_max

(***************************************************************************)
(* The TLE catalog files. A line is the sequence of its characters, line   *)
(* terminator included. CleanCatalog has bare names, PaddedCatalog has     *)
(* names padded with blanks, ShortCatalog ends one line after name "A".    *)
(***************************************************************************)
NL == "\n"
NameA == <<"A">>
NameB == <<"B">>
NameZ == <<"Z">>
ElemA1 == <<"1", "a">>
ElemA2 == <<"2", "a">>
ElemB1 == <<"1", "b">>
ElemB2 == <<"2", "b">>

CleanCatalog ==
    << <<"A", NL>>, <<"1", "a", NL>>, <<"2", "a", NL>>,
       <<"B", NL>>, <<"1", "b", NL>>, <<"2", "b", NL>> >>
PaddedCatalog ==
    << <<"A", " ", " ", NL>>, <<"1", "a", NL>>, <<"2", "a", NL>>,
       <<"B", " ", " ", NL>>, <<"1", "b", NL>>, <<"2", "b", NL>> >>
ShortCatalog ==
    << <<"B", NL>>, <<"1", "b", NL>>, <<"2", "b", NL>>,
       <<"A", NL>>, <<"1", "a">> >>

TLEFiles == {"clean.tle", "padded.tle", "short.tle"}
TLELabels == {NameA, NameB, NameZ}

FileLines(tlefile) ==
    IF tlefile = "clean.tle" THEN CleanCatalog
    ELSE IF tlefile = "padded.tle" THEN PaddedCatalog
    ELSE ShortCatalog

Whitespace == {" ", "\t", "\r", NL}

RECURSIVE rstrip(_)
rstrip(line) ==
    IF line # <<>> /\ line[Len(line)] \in Whitespace
    THEN rstrip(SubSeq(line, 1, Len(line) - 1))
    ELSE line

ReadTLEs(tlefile) ==
    LET lines == FileLines(tlefile)
    IN  [k \in 1..Len(lines) |-> rstrip(lines[k])]

\* the loop "for x in TLEs: if x == self.sat: break; i += 1", i counted from 0
RECURSIVE ScanTLEs(_, _, _)
ScanTLEs(TLEs, sat, i) ==
    IF i >= Len(TLEs) THEN i
    ELSE IF TLEs[i + 1] = sat THEN i
    ELSE ScanTLEs(TLEs, sat, i + 1)

\* TLEs[n] of a Python list, n counted from 0 and never negative here
InRange(TLEs, n) == n < Len(TLEs)

\* slip: the pair taken one line early, (TLEs[i], TLEs[i+1])
get_orbit_predictor_one_early(tlefile, sat) ==
    LET TLEs == ReadTLEs(tlefile)
        i == ScanTLEs(TLEs, sat, 0)
    IN  IF InRange(TLEs, i) /\ InRange(TLEs, i + 1)
        THEN [status |-> "ok", predictor |-> <<TLEs[i + 1], TLEs[i + 2]>>]
        ELSE [status |-> "IndexError", predictor |-> <<>>]

get_orbit_predictor(tlefile, sat) ==
    LET TLEs == ReadTLEs(tlefile)
        i == ScanTLEs(TLEs, sat, 0)
    IN  IF InRange(TLEs, i + 1) /\ InRange(TLEs, i + 2)
        THEN [status |-> "ok", predictor |-> <<TLEs[i + 2], TLEs[i + 3]>>]
        ELSE [status |-> "IndexError", predictor |-> <<>>]

(***************************************************************************)
(* Simulated time: a calendar day, an hour and a minute.                   *)
(***************************************************************************)
Datetime(d, h, m) == [day |-> d, hour |-> h, minute |-> m]
date(dt) == dt.day
\* slip: the minutes reset along with the hour
replace_hour_and_minute(dt, h) == [dt EXCEPT !.hour = h, !.minute = 0]
replace_hour(dt, h) == [dt EXCEPT !.hour = h]

add_minutes(dt, mins) ==
    LET total == (dt.day * 24 + dt.hour) * 60 + dt.minute + mins
    IN  Datetime(total \div 1440, (total % 1440) \div 60, total % 60)

(***************************************************************************)
(* init_orbit_poly: the passes of each satellite over the horizon, as a    *)
(* time-ordered sequence of (datetime, polygon).                           *)
(***************************************************************************)
PassesA ==
    << [datetime |-> Datetime(0, 8, 0), poly |-> Box1],
       [datetime |-> Datetime(1, 8, 15), poly |-> Box2],
       [datetime |-> Datetime(1, 20, 0), poly |-> Box1] >>
PassesB ==
    << [datetime |-> Datetime(1, 9, 30), poly |-> Box1],
       [datetime |-> Datetime(2, 9, 45), poly |-> Box1],
       [datetime |-> Datetime(2, 21, 15), poly |-> Box2] >>

InHorizon(pass) == pass.datetime.day <= MaxDay

init_orbit_poly(pred) ==
    SelectSeq(IF pred[1] = ElemA1 THEN PassesA ELSE PassesB, InHorizon)

get_orbit_path(pred) ==
    LET passes == init_orbit_poly(pred)
    IN  [sat_date |-> [k \in 1..Len(passes) |-> date(passes[k].datetime)],
         orbit_path |-> [k \in 1..Len(passes) |-> passes[k].poly]]

(***************************************************************************)
(* The weather collaborators: the grid axes of state['weather'], the cloud *)
(* cover variable 'tcc' of the weather file (fractions in thousandths,     *)
(* indexed [timestep][latitude bucket][longitude bucket], one entry per    *)
(* timestep the file holds), geo_idx and quick_cal_daylight.               *)
(***************************************************************************)
WeatherLatitude == <<1280, 3520, 3552>>
WeatherLongitude == <<-7360, -5120>>

cloudcover ==
    << << <<300, 0>>, <<0, 500>>, <<1000, 125>> >>,
       << <<0, 0>>, <<125, 0>>, <<995, 0>> >> >>

\* index, counted from 0, of the axis value nearest to dd (first one on a tie)
geo_idx(dd, dd_array) ==
    (CHOOSE k \in 1..Len(dd_array) :
        \A j \in 1..Len(dd_array) :
            \/ Abs(dd_array[k] - dd) < Abs(dd_array[j] - dd)
            \/ Abs(dd_array[k] - dd) = Abs(dd_array[j] - dd) /\ k <= j) - 1

\* sunrise and sunset hour of a calendar day at a place
quick_cal_daylight(dt, lat, lon) ==
    IF lat < 3000 THEN <<6, 18>>
    ELSE IF date(dt) % 2 = 1 THEN <<3, 21>>
    ELSE IF lon < -7350 THEN <<1, 22>>
    ELSE <<0, 23>>

\* Python's round(): to the nearest integer, ties to the even one
round(num, den) == RoundHalfEven(num, den) \div den

\* slip: one entry short, arr[:CC - 1] = 1
indicator_one_short(CC) == [k \in 1..ArrLen |-> IF k < CC THEN 1 ELSE 0]

\* arr = np.zeros(100); arr[:CC] = 1   (0 <= CC)
indicator(CC) == [k \in 1..ArrLen |-> IF k <= CC THEN 1 ELSE 0]

Reverse(arr) == [k \in 1..Len(arr) |-> arr[Len(arr) + 1 - k]]

\* np.random.shuffle(arr): the array rearranged (here: kept or reversed)
shuffle(arr) == {arr, Reverse(arr)}

\* np.random.choice(arr, 1)[0]: the entries a draw can return
choice(arr) == {arr[k] : k \in 1..Len(arr)}

RngCallsPerGate == 2    \* one shuffle and one choice

(***************************************************************************)
(* Schedule.assess_weather at time state tt: every result the call can     *)
(* have. "IndexError" when the timestep is past the end of the grid.       *)
(***************************************************************************)
assess_weather(site, tt) ==
    LET site_lat == float16(site.lat)
        site_lon == float16(site.lon)
        lat_idx == geo_idx(site_lat, WeatherLatitude)
        lon_idx == geo_idx(site_lon, WeatherLongitude)
        ti == tt.current_timestep
        srss == quick_cal_daylight(tt.current_date, site_lat, site_lon)
        sat_daylight == srss[1] <= tt.current_date.hour /\ tt.current_date.hour <= srss[2]
    IN  IF ~InRange(cloudcover, ti)
        THEN {[status |-> "IndexError", site |-> site, sat_daylight |-> sat_daylight,
               sat_cc |-> FALSE, CC |-> -1]}
        ELSE LET CC == round(cloudcover[ti + 1][lat_idx + 1][lon_idx + 1] * Percent, 1000)
             IN  {[status |-> "ok", site |-> site, sat_daylight |-> sat_daylight,
                   sat_cc |-> (e = 0), CC |-> CC] :
                      e \in UNION {choice(a) : a \in shuffle(indicator(CC))}}

plan_visit(site) ==
    [site |-> site, go_to_site |-> TRUE, LDAR_mins |-> 0, remaining_mins |-> 0]

(***************************************************************************)
(* Schedule.calc_viewable_sites: the two nested loops, the inner one left  *)
(* at the first polygon that contains the site.                            *)
(***************************************************************************)
\* DP = path[sat_date == date]
daily_paths(path, dates, day) ==
    LET Today(k) == dates[k] = day
        RECURSIVE Pick(_)
        Pick(k) == IF k > Len(path) THEN <<>>
                   ELSE IF Today(k) THEN <<path[k]>> \o Pick(k + 1)
                   ELSE Pick(k + 1)
    IN  Pick(1)

\* slip: the break left out, so every containing polygon appends the site
RECURSIVE inner_loop_no_break(_, _, _, _)
inner_loop_no_break(valid_site, s, PT, DP) ==
    IF DP = <<>> THEN valid_site
    ELSE inner_loop_no_break(IF contains(Head(DP), PT) THEN Append(valid_site, s)
                             ELSE valid_site, s, PT, Tail(DP))

RECURSIVE inner_loop(_, _, _, _)
inner_loop(valid_site, s, PT, DP) ==
    IF DP = <<>> THEN valid_site
    ELSE IF contains(Head(DP), PT) THEN Append(valid_site, s)
    ELSE inner_loop(valid_site, s, PT, Tail(DP))

RECURSIVE outer_loop(_, _, _)
outer_loop(valid_site, site_pool, DP) ==
    IF site_pool = <<>> THEN valid_site
    ELSE LET s == Head(site_pool)
             PT == Point(float16(s.lon), float16(s.lat))
         IN  outer_loop(inner_loop(valid_site, s, PT, DP), Tail(site_pool), DP)

calc_viewable_sites(site_pool, path, dates, tt) ==
    outer_loop(<<>>, site_pool, daily_paths(path, dates, date(tt.current_date)))

(***************************************************************************)
(* The loop of start_day over the viewable sites: every way it can run.    *)
(* A run is how it ended, the assess_weather results in call order, and    *)
(* the plans appended.                                                     *)
(***************************************************************************)
\* slip: the configuration switch forgotten
passes_gate_weather_only(w, consider_weather) ==
    w.sat_daylight /\ w.sat_cc

\* slip: "or" for "and" between the two signals
passes_gate_either(w, consider_weather) ==
    (w.sat_daylight \/ w.sat_cc) \/ ~consider_weather

passes_gate(w, consider_weather) ==
    (w.sat_daylight /\ w.sat_cc) \/ ~consider_weather

RECURSIVE gate_loop(_, _, _)
gate_loop(viewable_sites, tt, consider_weather) ==
    IF viewable_sites = <<>>
    THEN {[status |-> "ok", gated |-> <<>>, daily_site_plans |-> <<>>]}
    ELSE LET site == Head(viewable_sites)
             rest == gate_loop(Tail(viewable_sites), tt, consider_weather)
         IN  UNION {
               IF w.status # "ok"
               THEN {[status |-> w.status, gated |-> <<w>>, daily_site_plans |-> <<>>]}
               ELSE {[status |-> r.status,
                      gated |-> <<w>> \o r.gated,
                      daily_site_plans |->
                          IF passes_gate(w, consider_weather)
                          THEN <<plan_visit(site)>> \o r.daily_site_plans
                          ELSE r.daily_site_plans] : r \in rest}
               : w \in assess_weather(site, tt)}

\* calls made on the random source by a run: none by a call that raised
RECURSIVE rng_calls(_)
rng_calls(gated) ==
    IF gated = <<>> THEN 0
    ELSE (IF Head(gated).status = "ok" THEN RngCallsPerGate ELSE 0) + rng_calls(Tail(gated))

(***************************************************************************)
(* What an operation hands back: its name, whether it returned or raised,  *)
(* the value returned, and for start_day the argument, the clock and the   *)
(* random-source position at entry and the assess_weather results.         *)
(***************************************************************************)
NoDatetime == Datetime(-1, -1, -1)

Returned(op) ==
    [op |-> op, outcome |-> "returned", value |-> <<>>, site_pool |-> <<>>,
     entry |-> NoDatetime, rng0 |-> 0, viewable |-> <<>>, gated |-> <<>>]

Raised(op, error) == [Returned(op) EXCEPT !.outcome = error]

(***************************************************************************)
(* State before Schedule(...) is called.                                   *)
(***************************************************************************)
EntryTimes == {Datetime(0, 0, 0), Datetime(0, 8, 30)}
WorkMins == {0, 720}

Init ==
    /\ pc = "new"
    /\ config \in [TLE_label : TLELabels, TLE_file : TLEFiles]
    /\ parameters \in [consider_weather : BOOLEAN]
    /\ t \in [current_date : EntryTimes, current_timestep : {0}]
    /\ predictor = NoSeqAttr
    /\ sat_date = NoSeqAttr
    /\ orbit_path = NoSeqAttr
    /\ worked_today = NoFlagAttr
    /\ rng = 0
    /\ ret = Returned("none")

(***************************************************************************)
(* Schedule.__init__                                                       *)
(***************************************************************************)
Construct ==
    /\ pc = "new"
    /\ LET p == get_orbit_predictor(config.TLE_file, config.TLE_label)
       IN  IF p.status = "ok"
           THEN LET path == get_orbit_path(p.predictor)
                IN  /\ pc' = "DAY_START"
                    /\ predictor' = Attr(p.predictor)
                    /\ sat_date' = Attr(path.sat_date)
                    /\ orbit_path' = Attr(path.orbit_path)
                    /\ ret' = Returned("__init__")
           ELSE /\ pc' = "failed"
                /\ ret' = Raised("get_orbit_predictor", p.status)
                /\ UNCHANGED <<predictor, sat_date, orbit_path>>
    /\ UNCHANGED <<config, parameters, t, worked_today, rng>>

(***************************************************************************)
(* Schedule.start_day(site_pool)                                           *)
(***************************************************************************)
\* slip: the flag never written
flag_after_never_set(viewable_sites, flag) == flag

\* "if len(viewable_sites) == 0: self.worked_today = False", no else branch
flag_after(viewable_sites, flag) ==
    IF Len(viewable_sites) = 0 THEN Attr(FALSE) ELSE flag

start_day(site_pool) ==
    /\ pc = "DAY_START"
    /\ LET tt == [t EXCEPT !.current_date = replace_hour(t.current_date, DayStartHour)]
           viewable_sites == calc_viewable_sites(site_pool, orbit_path.value, sat_date.value, tt)
       IN  \E run \in gate_loop(viewable_sites, tt, parameters.consider_weather) :
               /\ rng + rng_calls(run.gated) <= MaxDraws
               /\ pc' = IF run.status = "ok" THEN "PLANNED" ELSE "ABORTED"
               /\ t' = tt
               /\ rng' = rng + rng_calls(run.gated)
               /\ worked_today' = flag_after(viewable_sites, worked_today)
               /\ ret' = [op |-> "start_day",
                          outcome |-> IF run.status = "ok" THEN "returned" ELSE run.status,
                          value |-> run.daily_site_plans,
                          site_pool |-> site_pool,
                          entry |-> t.current_date,
                          rng0 |-> rng,
                          viewable |-> viewable_sites,
                          gated |-> run.gated]
    /\ UNCHANGED <<config, parameters, predictor, sat_date, orbit_path>>

StartDay == \E site_pool \in SitePools : start_day(site_pool)

(***************************************************************************)
(* Schedule.update_schedule(work_mins)                                     *)
(***************************************************************************)
update_schedule(work_mins) ==
    /\ pc = "PLANNED"
    /\ date(add_minutes(t.current_date, work_mins)) <= MaxDay
    /\ t' = [t EXCEPT !.current_date = add_minutes(t.current_date, work_mins)]
    /\ ret' = Returned("update_schedule")
    /\ UNCHANGED <<pc, config, parameters, predictor, sat_date, orbit_path,
                   worked_today, rng>>

UpdateSchedule == \E work_mins \in WorkMins : update_schedule(work_mins)

(***************************************************************************)
(* Schedule.end_day(site_pool, itinerary)                                  *)
(***************************************************************************)
EndDay ==
    /\ pc = "PLANNED"
    /\ pc' = "DAY_END"
    /\ ret' = Returned("end_day")
    /\ UNCHANGED <<config, parameters, t, predictor, sat_date, orbit_path,
                   worked_today, rng>>

(***************************************************************************)
(* The simulation loop moving to the next day and timestep. It drives the  *)
(* schedule through DAY_START -> PLANNED -> DAY_END once per day: one      *)
(* start_day, update_schedule for the work done, end_day, then the next    *)
(* day; an error raised by start_day ends the run.                         *)
(***************************************************************************)
NextDay ==
    /\ pc = "DAY_END"
    /\ date(t.current_date) < MaxDay
    /\ pc' = "DAY_START"
    /\ t' = [current_date |-> add_minutes(t.current_date, 1440),
             current_timestep |-> t.current_timestep + 1]
    /\ ret' = Returned("next_day")
    /\ UNCHANGED <<config, parameters, predictor, sat_date, orbit_path,
                   worked_today, rng>>

Next == Construct \/ StartDay \/ UpdateSchedule \/ EndDay \/ NextDay

Spec == Init /\ [][Next]_vars

(***************************************************************************)
(* Vocabulary of the properties.                                           *)
(***************************************************************************)
AfterStartDay == ret.op = "start_day"
StartDayReturned == AfterStartDay /\ ret.outcome = "returned"

\* the site's point, as calc_viewable_sites builds it
SitePoint(s) == Point(float16(s.lon), float16(s.lat))

\* table rows of calendar day d whose polygon contains the site's point
CoveringRows(s, d) ==
    {k \in 1..Len(orbit_path.value) :
        sat_date.value[k] = d /\ contains(orbit_path.value[k], SitePoint(s))}

\* the sites of a pool covered on day d, in pool order
ViewableOn(site_pool, d) ==
    LET Covered(s) == CoveringRows(s, d) # {}
    IN  SelectSeq(site_pool, Covered)

GridHasTimestep == t.current_timestep < Len(cloudcover)

\* the cloud fraction (thousandths) the grid holds for a site now
FractionAt(s) ==
    cloudcover[t.current_timestep + 1]
              [geo_idx(float16(s.lat), WeatherLatitude) + 1]
              [geo_idx(float16(s.lon), WeatherLongitude) + 1]

Entry(s) == [site |-> s, go_to_site |-> TRUE, LDAR_mins |-> 0, remaining_mins |-> 0]

RECURSIVE EntriesOfPassing(_)
EntriesOfPassing(gated) ==
    IF gated = <<>> THEN <<>>
    ELSE (IF Head(gated).sat_daylight /\ Head(gated).sat_cc
          THEN <<Entry(Head(gated).site)>> ELSE <<>>) \o EntriesOfPassing(Tail(gated))

C2_ViewableSites ==
    AfterStartDay =>
        ret.viewable = ViewableOn(ret.site_pool, date(t.current_date))

\* two different sites kept in pool order, one of them inside two polygons
\* of the day, while the table also holds polygons of other dates
C2_Witness ==
    /\ AfterStartDay
    /\ Len(ret.viewable) = 2 /\ ret.viewable[1] # ret.viewable[2]
    /\ \E k \in 1..2 :
           Cardinality(CoveringRows(ret.viewable[k], date(t.current_date))) >= 2
    /\ \E k \in 1..Len(sat_date.value) : sat_date.value[k] # date(t.current_date)

(***************************************************************************)
(* C3: with consider_weather true, the itinerary start_day returns is the  *)
(* order-preserving subsequence of the day's viewable sites for which      *)
(* assess_weather gave daylight and not-obscured; every viewable site is   *)
(* gated exactly once, in order.                                           *)
(***************************************************************************)
C3_WeatherGate ==
    (StartDayReturned /\ parameters.consider_weather) =>
        LET viewable == ViewableOn(ret.site_pool, date(t.current_date))
        IN  /\ Len(ret.gated) = Len(viewable)
            /\ \A k \in 1..Len(viewable) : ret.gated[k].site = viewable[k]
            /\ ret.value = EntriesOfPassing(ret.gated)

\* two sites gated, the first dropped, the second kept
C3_Witness ==
    /\ StartDayReturned /\ parameters.consider_weather
    /\ Len(ret.gated) = 2 /\ Len(ret.value) = 1
    /\ ~ret.gated[1].sat_cc
    /\ ret.value[1].site = ret.gated[2].site

(***************************************************************************)
(* C4: the cloud draw takes one entry of a 100-entry array holding exactly *)
(* CC ones, CC the cloud fraction times 100 rounded to 0..100; fraction 0  *)
(* always gives not obscured, fraction 1 always obscured.                  *)
(***************************************************************************)
C4_CloudDraw ==
    AfterStartDay =>
        \A k \in 1..Len(ret.gated) :
            LET g == ret.gated[k]
                f == FractionAt(g.site)
            IN  g.status = "ok" =>
                  /\ g.CC \in 0..100
                  /\ 2 * Abs(10 * g.CC - f) <= 10
                  /\ \A a \in shuffle(indicator(g.CC)) :
                         /\ Len(a) = 100
                         /\ Cardinality({j \in 1..Len(a) : a[j] = 1}) = g.CC
                         /\ \A j \in 1..Len(a) : a[j] \in {0, 1}
                  /\ (f = 0 => g.sat_cc)
                  /\ (f = 1000 => ~g.sat_cc)

\* the same site gated twice with 0 < CC < 100, once obscured and once not
C4_Witness ==
    /\ AfterStartDay /\ Len(ret.gated) = 2
    /\ ret.gated[1].site = ret.gated[2].site
    /\ ret.gated[1].CC > 0 /\ ret.gated[1].CC < 100
    /\ ret.gated[1].sat_cc /\ ~ret.gated[2].sat_cc

(***************************************************************************)
(* C5 as stated: an identifier equal to no line of the catalog makes       *)
(* construction fail before the ground-track table is built; an identifier *)
(* that is present gives the two lines after its first equal line.         *)
(***************************************************************************)
\* the text of a line: the line without its terminator
LineText(line) ==
    IF line # <<>> /\ line[Len(line)] = NL THEN SubSeq(line, 1, Len(line) - 1) ELSE line

Min(S) == CHOOSE m \in S : \A n \in S : m <= n

C5_ExactLineMatch ==
    pc # "new" =>
        LET lines == FileLines(config.TLE_file)
            exact == {k \in 1..Len(lines) : LineText(lines[k]) = config.TLE_label}
        IN  /\ exact = {} => (pc = "failed" /\ ~orbit_path.exists /\ ~sat_date.exists)
            /\ (exact # {} /\ pc # "failed") =>
                   predictor.value = <<LineText(lines[Min(exact) + 1]),
                                 LineText(lines[Min(exact) + 2])>>

(***************************************************************************)
(* C5 amended: lines are compared after their trailing whitespace is       *)
(* stripped. If no stripped line equals the identifier, or fewer than two  *)
(* lines follow the first that does, construction fails with an IndexError *)
(* in get_orbit_predictor, with no predictor and no ground-track table and *)
(* no later operation; otherwise the element pair is the two stripped      *)
(* lines after the first stripped line equal to the identifier.            *)
(***************************************************************************)
C5_StrippedLineMatch ==
    pc # "new" =>
        LET lines == FileLines(config.TLE_file)
            found == {k \in 1..Len(lines) : rstrip(lines[k]) = config.TLE_label}
            usable == found # {} /\ Min(found) + 2 <= Len(lines)
        IN  /\ ~usable =>
                   /\ pc = "failed"
                   /\ ~predictor.exists /\ ~orbit_path.exists /\ ~sat_date.exists
                   /\ ret = Raised("get_orbit_predictor", "IndexError")
                   /\ ~worked_today.exists /\ rng = 0
            /\ usable =>
                   /\ pc # "failed"
                   /\ predictor = Attr(<<rstrip(lines[Min(found) + 1]),
                                         rstrip(lines[Min(found) + 2])>>)
                   /\ orbit_path.exists /\ sat_date.exists

\* construction has failed on an identifier that no catalog line holds
C5_Witness ==
    /\ pc = "failed"
    /\ \A k \in 1..Len(FileLines(config.TLE_file)) :
           rstrip(FileLines(config.TLE_file)[k]) # config.TLE_label

(***************************************************************************)
(* C6 as stated: after start_day the hour of state['t'].current_date is    *)
(* the schedule's start_hour.                                              *)
(***************************************************************************)
C6_HourIsStartHour ==
    AfterStartDay => t.current_date.hour = start_hour

(***************************************************************************)
(* C7: when no site of the pool is viewable, start_day raises nothing,     *)
(* returns an empty itinerary, gates no site and sets worked_today False.  *)
(***************************************************************************)
C7_NoViewableSites ==
    (AfterStartDay /\ ViewableOn(ret.site_pool, date(t.current_date)) = <<>>) =>
        /\ ret.outcome = "returned"
        /\ ret.value = <<>>
        /\ ret.gated = <<>>
        /\ rng = ret.rng0
        /\ worked_today = Attr(FALSE)

\* an empty pool on a day that has a coverage polygon
C7_Witness ==
    /\ AfterStartDay /\ ret.site_pool = <<>>
    /\ \E k \in 1..Len(sat_date.value) : sat_date.value[k] = date(t.current_date)
    /\ worked_today = Attr(FALSE)

(***************************************************************************)
(* C8 as stated: after a start_day call worked_today has a defined value   *)
(* and is False exactly when that call found no viewable site.             *)
(***************************************************************************)
C8_FlagResetEveryDay ==
    StartDayReturned =>
        /\ worked_today.exists
        /\ (worked_today = Attr(FALSE)) <=> (ret.viewable = <<>>)

(***************************************************************************)
(* C9 as stated: with consider_weather false a start_day call looks up no  *)
(* cloud cell and draws nothing, so the random source is where it was, and *)
(* the call does not fail on a grid index out of range.                    *)
(***************************************************************************)
C9_WeatherOffBypass ==
    (AfterStartDay /\ ~parameters.consider_weather) =>
        /\ rng = ret.rng0
        /\ ret.gated = <<>>
        /\ ret.outcome = "returned"

====
